---- MODULE Spec2Model ----
(***************************************************************************)
(* A model of the crawl core of quality_crawling: the priority queues of   *)
(* utils/priorityqueue.py, the frontier managers of crawler/frontier.py,   *)
(* the seen-url testers of crawler/seen.py, the fetcher's download log     *)
(* (crawler/fetcher.py, utils/datasetIR.py) and the orchestrator's crawl   *)
(* loop (crawler/orchestrator.py).                                         *)
(*                                                                         *)
(* URLs are the integers 1..NumUrls (the code's strings, of which only     *)
(* equality and the tuple order of the heap matter); priorities and        *)
(* qscores are integers (the code's floats, of which only the order and    *)
(* the negation matter).                                                   *)
(***************************************************************************)
EXTENDS Integers, Sequences, FiniteSets, TLC

VARIABLES
    policy,         \* which FrontierManager / PQueue / SeenURLTester class is in use
    queue,          \* self.queue of that class
    deleted,        \* PQueuePriorityQueue.deleted: item -> {priority, count}
    num_enqueued,   \* PQueuePriorityQueue.num_enqueued
    num_deleted,    \* PQueuePriorityQueue.num_deleted
    last,           \* the last call made on the frontier and what it returned
    supplied,       \* history: highest priority given to put/update per enqueued item
    added,          \* history: how many times each URL was added
    popped,         \* history: the URLs returned by pop/get, in order
    fathers,        \* history: the page whose outlink enqueued each URL (0: a seed)
    pc,             \* where Orchestrator.crawl() is
    updates_enabled,        \* Orchestrator.updates_enabled
    max_pages,              \* Orchestrator.max_pages
    save_every_n_pages,     \* Orchestrator.save_every_n_pages, SAVE_EVERY_N_PAGES
    total_docs,             \* Fetcher.total_docs: the URLs 1..total_docs are in the corpus
    seeds_read,             \* how many of self.seed_urls populate_frontier has taken
    seen_urls,              \* SeenURLTester.seen_urls: the docnos marked
    capacity,               \* BitArraySeenURLTester.capacity
    offset_file,            \* the characters of a shard's .offset file
    doc_seq,                \* the index passed to read_offsets
    shard_files,            \* which files of the shard exist and hold a JSON record
    downloaded,             \* Fetcher.downloaded
    num_stored,             \* Fetcher.num_stored
    writes,                 \* the np.save calls made: <<checkpoint id, array>>, in order
    page,                   \* process_page: the page being processed
    todo,                   \* process_page: the outlinks still to process
    processed_pages,        \* crawl: the local processed_pages
    outlinks,               \* the corpus: outlinks read for a page that can be read again
    qscores,                \* the corpus: qscore read for a page that can be read again
    notfound_seedurls,      \* Orchestrator.notfound_seedurls
    wrong_linked_docid,     \* Orchestrator.wrong_linked_docid
    num_noutlinks,          \* Orchestrator.num_noutlinks
    failed_dowloads         \* Orchestrator.failed_dowloads

frontierVars == <<policy, queue, deleted, num_enqueued, num_deleted>>
historyVars == <<last, supplied, added, popped, fathers>>
configVars == <<updates_enabled, max_pages, save_every_n_pages, total_docs, capacity,
                offset_file, doc_seq, shard_files>>
fetcherVars == <<downloaded, num_stored, writes>>
counterVars == <<notfound_seedurls, wrong_linked_docid, num_noutlinks, failed_dowloads>>
corpusVars == <<outlinks, qscores>>
crawlVars == <<pc, configVars, seeds_read, seen_urls, fetcherVars, page, todo,
               processed_pages, corpusVars, counterVars>>
vars == <<frontierVars, crawlVars, historyVars>>

----------------------------------------------------------------------------
(* Bounds of the model *)

NumUrls == 2
MaxPriority == 2
MaxPuts == 2
NumPages == 3
MaxSeeds == 2
MaxLinks == 2
MaxSaveEvery == 2

\* remove() is called only while num_enqueued > -MaxUnderflow
MaxUnderflow == 1

\* the seen-url testers on their own: capacities 1..MaxCapacity, MaxMarks calls
MaxCapacity == 3
MaxMarks == 3

\* clean_links on its own: lists of up to MaxRawLinks link records
MaxRawLinks == 4

\* read_offsets on its own: offset files of up to MaxRecords records, each one
\* of the first MaxOffsets multiples of OffsetStep
MaxRecords == 3
MaxOffsets == 4
OffsetStep == 7

(* Program constants *)

\* PQueuePriorityQueue.MAX_DELETED_THRESHOLD is 10_000_000 in the source; the
\* model scales it down so that the compaction inside update() is exercised.
MAX_DELETED_THRESHOLD == 1
MAX_PRIORITY == 1
MIN_PRIORITY == -50

\* float('-inf'), the priority remove() marks an item with
NEG_INF == -100

URLS == 1..NumUrls
PRIORITIES == 1..MaxPriority
None == "None"

----------------------------------------------------------------------------
(* heapq / queue.PriorityQueue over (internal_priority, item) tuples.       *)
(* The heap is kept as the ascending sequence of its tuples: heappop        *)
(* returns the least tuple, which is all that the callers observe.          *)

TupleLess(a, b) == a[1] < b[1] \/ (a[1] = b[1] /\ a[2] < b[2])

RECURSIVE heappush(_, _)
heappush(q, e) ==
    IF q = <<>> THEN <<e>>
    ELSE IF TupleLess(e, Head(q)) THEN <<e>> \o q
    ELSE <<Head(q)>> \o heappush(Tail(q), e)

_internal_priority(priority) == 0 - priority

_external_priority(priority) == 0 - priority

----------------------------------------------------------------------------
(* class PQueuePriorityQueue.  Its methods are operators on the object's    *)
(* state s = [queue, deleted, num_enqueued, num_deleted]; each gives the    *)
(* state after the call (st), the value returned (ret) and the exception    *)
(* raised (exc, None when the call returns).                                *)

PQState == [queue |-> queue, deleted |-> deleted,
            num_enqueued |-> num_enqueued, num_deleted |-> num_deleted]

PQ_init == [queue |-> <<>>, deleted |-> <<>>, num_enqueued |-> 0, num_deleted |-> 0]

Tracked(s) == DOMAIN s.deleted

DictSet(d, k, v) == [x \in (DOMAIN d) \cup {k} |-> IF x = k THEN v ELSE d[x]]

DictDel(d, k) == [x \in (DOMAIN d) \ {k} |-> d[x]]

\* a put that counts the item twice in num_enqueued
PQ_put_counted_twice(s, item, priority) ==
    IF item \in DOMAIN s.deleted
    THEN [st |-> s, ret |-> None, exc |-> "AssertionError"]
    ELSE LET internal_priority == _internal_priority(priority)
         IN [st |-> [s EXCEPT
                        !.queue = heappush(s.queue, <<internal_priority, item>>),
                        !.deleted = DictSet(s.deleted, item,
                                        [priority |-> internal_priority, count |-> 0]),
                        !.num_enqueued = s.num_enqueued + 2],
             ret |-> None, exc |-> None]

\* a put without the membership assertion: a tracked item is pushed again
PQ_put_unchecked(s, item, priority) ==
    LET internal_priority == _internal_priority(priority)
    IN [st |-> [s EXCEPT
                   !.queue = heappush(s.queue, <<internal_priority, item>>),
                   !.deleted = DictSet(s.deleted, item,
                                   [priority |-> internal_priority, count |-> 0]),
                   !.num_enqueued = s.num_enqueued + 1],
        ret |-> None, exc |-> None]

PQ_put(s, item, priority) ==
    IF item \in DOMAIN s.deleted
    THEN [st |-> s, ret |-> None, exc |-> "AssertionError"]
    ELSE LET internal_priority == _internal_priority(priority)
         IN [st |-> [s EXCEPT
                        !.queue = heappush(s.queue, <<internal_priority, item>>),
                        !.deleted = DictSet(s.deleted, item,
                                        [priority |-> internal_priority, count |-> 0]),
                        !.num_enqueued = s.num_enqueued + 1],
             ret |-> None, exc |-> None]

\* a _mark_deleted that does not count the entry it makes obsolete
_mark_deleted_uncounted(s, item, priority) ==
    LET old_priority == s.deleted[item].priority
        old_count == s.deleted[item].count
    IN IF priority >= _external_priority(old_priority)
       THEN s
       ELSE [s EXCEPT
               !.deleted = DictSet(s.deleted, item,
                              [priority |-> _internal_priority(priority),
                               count |-> old_count + 1])]

_mark_deleted(s, item, priority) ==
    LET old_priority == s.deleted[item].priority
        old_count == s.deleted[item].count
    IN IF priority >= _external_priority(old_priority)
       THEN s
       ELSE [s EXCEPT
               !.deleted = DictSet(s.deleted, item,
                              [priority |-> _internal_priority(priority),
                               count |-> old_count + 1]),
               !.num_deleted = s.num_deleted + 1]

\* a get that returns the first entry it pops, stale or not
PQ_get_first(s) ==
    IF s.queue = <<>>
    THEN [st |-> s, ret |-> None, exc |-> "KeyError"]
    ELSE LET entry == Head(s.queue)
             item == entry[2]
             del_count == s.deleted[item].count - 1
         IN [st |-> [s EXCEPT
                       !.queue = Tail(s.queue),
                       !.deleted = IF del_count < 0
                                   THEN DictDel(s.deleted, item)
                                   ELSE DictSet(s.deleted, item,
                                          [priority |-> s.deleted[item].priority,
                                           count |-> del_count]),
                       !.num_enqueued = s.num_enqueued - 1],
             ret |-> <<item, _external_priority(entry[1])>>, exc |-> None]

\* get(): one pass of the while loop per heap entry popped.
RECURSIVE PQ_get(_)
PQ_get(s) ==
    IF s.queue = <<>>
    THEN [st |-> s, ret |-> None, exc |-> "KeyError"]
    ELSE LET entry == Head(s.queue)
             item == entry[2]
             priority == _external_priority(entry[1])
             s1 == [s EXCEPT !.queue = Tail(s.queue)]
         IN IF item \notin DOMAIN s.deleted
            THEN [st |-> s1, ret |-> None, exc |-> "AttributeError"]
            ELSE LET min_del_priority == _external_priority(s.deleted[item].priority)
                     del_count == s.deleted[item].count - 1
                     s2 == [s1 EXCEPT !.deleted =
                              IF del_count < 0
                              THEN DictDel(s.deleted, item)
                              ELSE DictSet(s.deleted, item,
                                     [priority |-> _internal_priority(min_del_priority),
                                      count |-> del_count])]
                 IN IF priority > min_del_priority
                    THEN PQ_get([s2 EXCEPT !.num_deleted = s2.num_deleted - 1])
                    ELSE [st |-> [s2 EXCEPT !.num_enqueued = s2.num_enqueued - 1],
                          ret |-> <<item, priority>>, exc |-> None]

\* The while loop of _cleanup_deleted: drains self.queue through get().
RECURSIVE cleanup_loop(_, _, _)
cleanup_loop(s, new_queue, new_deleted) ==
    IF s.queue = <<>>
    THEN [st |-> s, new_queue |-> new_queue, new_deleted |-> new_deleted, exc |-> None]
    ELSE LET g == PQ_get(s)
         IN IF g.exc # None
            THEN [st |-> g.st, new_queue |-> new_queue, new_deleted |-> new_deleted,
                  exc |-> g.exc]
            ELSE LET item == g.ret[1]
                     priority == g.ret[2]
                 IN cleanup_loop(g.st,
                       heappush(new_queue, <<_internal_priority(priority), item>>),
                       DictSet(new_deleted, item,
                          [priority |-> _internal_priority(priority), count |-> 0]))

\* a compaction that keeps the num_enqueued left by its own get() calls
_cleanup_deleted_no_restore(s) ==
    LET r == cleanup_loop(s, <<>>, <<>>)
    IN IF r.exc # None
       THEN [st |-> r.st, ret |-> None, exc |-> r.exc]
       ELSE [st |-> [queue |-> r.new_queue, deleted |-> r.new_deleted,
                     num_enqueued |-> r.st.num_enqueued, num_deleted |-> 0],
             ret |-> None, exc |-> None]

_cleanup_deleted(s) ==
    LET old_num_enqueued == s.num_enqueued
        r == cleanup_loop(s, <<>>, <<>>)
    IN IF r.exc # None
       THEN [st |-> r.st, ret |-> None, exc |-> r.exc]
       ELSE [st |-> [queue |-> r.new_queue, deleted |-> r.new_deleted,
                     num_enqueued |-> old_num_enqueued, num_deleted |-> 0],
             ret |-> None, exc |-> None]

\* an update that pushes the new entry without marking the old one obsolete
PQ_update_unmarked(s, item, priority) ==
    IF item \notin DOMAIN s.deleted
    THEN [st |-> s, ret |-> FALSE, exc |-> None]
    ELSE LET old_priority == s.deleted[item].priority
         IN [st |-> IF _external_priority(old_priority) > priority
                    THEN [s EXCEPT !.queue =
                            heappush(s.queue, <<_internal_priority(priority), item>>)]
                    ELSE s,
             ret |-> TRUE, exc |-> None]

\* an update that enqueues whatever item it is given
PQ_update_or_put(s, item, priority) ==
    [st |-> PQ_put(s, item, priority).st, ret |-> TRUE, exc |-> None]

PQ_update(s, item, priority) ==
    IF item \notin DOMAIN s.deleted
    THEN [st |-> s, ret |-> FALSE, exc |-> None]
    ELSE LET old_priority == s.deleted[item].priority
             s1 == IF _external_priority(old_priority) > priority
                   THEN LET m == _mark_deleted(s, item, priority)
                        IN [m EXCEPT !.queue =
                              heappush(m.queue, <<_internal_priority(priority), item>>)]
                   ELSE s
         IN IF s1.num_deleted > MAX_DELETED_THRESHOLD
            THEN LET c == _cleanup_deleted(s1)
                 IN [st |-> c.st, ret |-> IF c.exc = None THEN TRUE ELSE None,
                     exc |-> c.exc]
            ELSE [st |-> s1, ret |-> TRUE, exc |-> None]

\* remove(): float('-inf') is NEG_INF; an untracked item fails at
\* self.deleted.get(item).values() inside _mark_deleted
PQ_remove(s, item) ==
    IF item \notin DOMAIN s.deleted
    THEN [st |-> s, ret |-> None, exc |-> "AttributeError"]
    ELSE LET m == _mark_deleted(s, item, NEG_INF)
         IN [st |-> [m EXCEPT !.num_enqueued = m.num_enqueued - 1],
             ret |-> None, exc |-> None]

PQ_enqueued_from_heap(s) == Len(s.queue)

PQ_enqueued(s) == s.num_enqueued

----------------------------------------------------------------------------
(* class PQueueHeap: a heapq list of (internal_priority, item) *)

RemoveAt(q, i) == SubSeq(q, 1, i - 1) \o SubSeq(q, i + 1, Len(q))

PQH_put(s, item, priority) ==
    [st |-> [s EXCEPT !.queue = heappush(s.queue, <<_internal_priority(priority), item>>)],
     ret |-> None, exc |-> None]

\* The indices at which update()'s scan can stop: the entries of item.  The
\* scan takes the first one in heap-array order, which is any of them when the
\* item was put more than once; 0 stands for "not found".
MatchIdx(q, item) ==
    LET found == {i \in 1..Len(q) : q[i][2] = item}
    IN IF found = {} THEN {0} ELSE found

PQH_update(s, item, priority, i) ==
    IF i = 0
    THEN [st |-> s, ret |-> None, exc |-> None]
    ELSE LET old_priority == s.queue[i][1]
         IN IF _external_priority(old_priority) < priority
            THEN [st |-> [s EXCEPT !.queue =
                            heappush(RemoveAt(s.queue, i),
                                     <<_internal_priority(priority), item>>)],
                  ret |-> None, exc |-> None]
            ELSE [st |-> s, ret |-> None, exc |-> None]

\* a get that pops the entry at the other end of the order
PQH_get_last(s) ==
    IF s.queue = <<>>
    THEN [st |-> s, ret |-> None, exc |-> "KeyError"]
    ELSE [st |-> [s EXCEPT !.queue = SubSeq(s.queue, 1, Len(s.queue) - 1)],
          ret |-> <<s.queue[Len(s.queue)][2], s.queue[Len(s.queue)][1]>>, exc |-> None]

PQH_get(s) ==
    IF s.queue = <<>>
    THEN [st |-> s, ret |-> None, exc |-> "KeyError"]
    ELSE [st |-> [s EXCEPT !.queue = Tail(s.queue)],
          ret |-> <<Head(s.queue)[2], Head(s.queue)[1]>>, exc |-> None]

PQH_enqueued(s) == Len(s.queue)

----------------------------------------------------------------------------
(* The frontier managers of crawler/frontier.py.  policy names the class:   *)
(* "random", "bfs", "dfs", "quality-heap" (QualityFrontierManager over      *)
(* PQueueHeap, updates=False) and "quality-updating" (QualityFrontier-      *)
(* Manager over PQueuePriorityQueue, updates=True).                         *)

LazyPolicies == {"random", "bfs", "dfs"}
QualityPolicies == {"quality-heap", "quality-updating"}
Policies == LazyPolicies \cup QualityPolicies

\* qscores below, at and above the priority of the seeds
QSCORES == (MAX_PRIORITY - 1)..(MAX_PRIORITY + 1)

\* A page's metadata.get("qscore"): <<q>> for the score q, <<>> for None
NoQScore == <<>>
QSCORE_ARGS == {NoQScore} \cup {<<q>> : q \in QSCORES}

Q_put(pol, s, item, priority) ==
    IF pol = "quality-updating" THEN PQ_put(s, item, priority)
    ELSE PQH_put(s, item, priority)

Q_enqueued(pol, s) ==
    IF pol = "quality-updating" THEN PQ_enqueued(s) ELSE PQH_enqueued(s)

\* an enqueued() that reports one URL fewer than the frontier holds
F_enqueued_one_less(pol, s) ==
    (IF pol \in QualityPolicies THEN Q_enqueued(pol, s) ELSE Len(s.queue)) - 1

F_enqueued(pol, s) ==
    IF pol \in QualityPolicies THEN Q_enqueued(pol, s) ELSE Len(s.queue)

\* an add that puts the URL at the head of the deque
F_append_left(s, url) ==
    [st |-> [s EXCEPT !.queue = <<url>> \o s.queue], ret |-> None, exc |-> None]

F_append(s, url) ==
    [st |-> [s EXCEPT !.queue = Append(s.queue, url)], ret |-> None, exc |-> None]

F_add_with_max_priority(pol, s, url) ==
    IF pol \in QualityPolicies THEN Q_put(pol, s, url, MAX_PRIORITY)
    ELSE F_append(s, url)

\* QualityFrontierManager.update / add: page.get_metadata("qscore") or MIN_PRIORITY
PagePriority(qscore) == IF qscore = NoQScore THEN MIN_PRIORITY ELSE qscore[1]

\* father is None for a seed
F_add(pol, s, url, qscore, father) ==
    IF pol \in QualityPolicies
    THEN IF father = None
         THEN F_add_with_max_priority(pol, s, url)
         ELSE Q_put(pol, s, url, PagePriority(qscore))
    ELSE F_append(s, url)

\* i: where PQueueHeap.update's scan stops (MatchIdx)
F_update(pol, s, url, qscore, i) ==
    IF pol = "quality-updating" THEN PQ_update(s, url, PagePriority(qscore))
    ELSE IF pol = "quality-heap" THEN PQH_update(s, url, PagePriority(qscore), i)
    ELSE [st |-> s, ret |-> None, exc |-> None]

EmptyPop(s) == [st |-> s, ret |-> None, exc |-> "IndexError"]

\* QualityFrontierManager.remove; PQueueHeap has no remove method
F_remove(pol, s, url) ==
    LET num_enqueued_before == Q_enqueued(pol, s)
    IN IF num_enqueued_before = 0 THEN EmptyPop(s)
       ELSE IF pol = "quality-heap"
       THEN [st |-> s, ret |-> None, exc |-> "AttributeError"]
       ELSE LET r == PQ_remove(s, url)
            IN IF r.exc = None /\ Q_enqueued(pol, r.st) = num_enqueued_before
               THEN [st |-> r.st, ret |-> None, exc |-> "ValueError"]
               ELSE r

Swap(q, i, j) == [q EXCEPT ![i] = q[j], ![j] = q[i]]

\* a pop that removes the last URL without the swap and returns the drawn one
Random_pop_unswapped(s, random_index) ==
    IF Len(s.queue) = 0 THEN EmptyPop(s)
    ELSE [st |-> [s EXCEPT !.queue = SubSeq(s.queue, 1, Len(s.queue) - 1)],
          ret |-> s.queue[random_index], exc |-> None]

\* random_index: the index drawn by random.randint (1-based here)
Random_pop(s, random_index) ==
    IF Len(s.queue) = 0 THEN EmptyPop(s)
    ELSE LET swapped == Swap(s.queue, random_index, Len(s.queue))
         IN [st |-> [s EXCEPT !.queue = SubSeq(swapped, 1, Len(swapped) - 1)],
             ret |-> swapped[Len(swapped)], exc |-> None]

BFS_pop_last(s) ==
    IF Len(s.queue) = 0 THEN EmptyPop(s)
    ELSE [st |-> [s EXCEPT !.queue = SubSeq(s.queue, 1, Len(s.queue) - 1)],
          ret |-> s.queue[Len(s.queue)], exc |-> None]

BFS_pop(s) ==
    IF Len(s.queue) = 0 THEN EmptyPop(s)
    ELSE [st |-> [s EXCEPT !.queue = Tail(s.queue)], ret |-> Head(s.queue), exc |-> None]

\* a pop that takes the head of the deque
DFS_pop_first(s) ==
    IF Len(s.queue) = 0 THEN EmptyPop(s)
    ELSE [st |-> [s EXCEPT !.queue = Tail(s.queue)], ret |-> Head(s.queue), exc |-> None]

DFS_pop(s) ==
    IF Len(s.queue) = 0 THEN EmptyPop(s)
    ELSE [st |-> [s EXCEPT !.queue = SubSeq(s.queue, 1, Len(s.queue) - 1)],
          ret |-> s.queue[Len(s.queue)], exc |-> None]

\* a pop that goes to the queue without looking at enqueued()
Quality_pop_unguarded(pol, s) ==
    LET g == IF pol = "quality-updating" THEN PQ_get(s) ELSE PQH_get(s)
    IN [st |-> g.st, ret |-> IF g.exc = None THEN g.ret[1] ELSE None, exc |-> g.exc]

Quality_pop(pol, s) ==
    IF Q_enqueued(pol, s) = 0 THEN EmptyPop(s)
    ELSE LET g == IF pol = "quality-updating" THEN PQ_get(s) ELSE PQH_get(s)
         IN [st |-> g.st,
             ret |-> IF g.exc = None THEN g.ret[1] ELSE None,
             exc |-> g.exc]

F_pop(pol, s, random_index) ==
    IF pol \in QualityPolicies THEN Quality_pop(pol, s)
    ELSE IF pol = "bfs" THEN BFS_pop(s)
    ELSE IF pol = "dfs" THEN DFS_pop(s)
    ELSE Random_pop(s, random_index)

RandomIdx(pol, s) ==
    IF pol = "random" /\ Len(s.queue) > 0 THEN 1..Len(s.queue) ELSE {0}

----------------------------------------------------------------------------
(* The corpus, the Fetcher's download log and the Parser *)

PAGES == 1..NumPages

\* a URL that is no key of url2docids / url2docnos
UnknownUrl == NumPages + 1

\* a CorpusIndex in which every url is found
InCorpus_any(url) == TRUE

InCorpus(url) == url \in 1..total_docs

\* parse_url2docnos: the docno of a URL is its index in url2docids
url2docno(url) == url - 1

num_dowloaded == Len(downloaded) + num_stored

\* a checkpoint_id that does not count the records already stored
checkpoint_id_of_buffer(last_flush) ==
    (Len(downloaded) \div save_every_n_pages) + (IF last_flush THEN 1 ELSE 0)

\* a checkpoint_id that does not add one for the final flush
checkpoint_id_same_for_last(last_flush) ==
    (Len(downloaded) + num_stored) \div save_every_n_pages

\* the checkpoint_id computed by write_downloads_to_file
checkpoint_id(last_flush) ==
    ((Len(downloaded) + num_stored) \div save_every_n_pages)
    + (IF last_flush THEN 1 ELSE 0)

write_downloads_to_file(last_flush) ==
    Append(writes, [id |-> checkpoint_id(last_flush), data |-> downloaded,
                    last |-> last_flush])

\* the files <prefix>_<k>.npy on disk: the last array saved under each id
FileIds == {writes[i].id : i \in 1..Len(writes)}

FileContent(k) ==
    LET i == CHOOSE i \in 1..Len(writes) :
                /\ writes[i].id = k
                /\ \A j \in (i + 1)..Len(writes) : writes[j].id # k
    IN writes[i].data

\* SetSeenURLTester
is_seen(docid) == docid \in seen_urls

\* a mark_seen that marks nothing
mark_seen_nothing(seen, docid) == seen

mark_seen(seen, docid) == seen \cup {docid}

Set_seen_count(seen) == Cardinality(seen)

\* BitArraySeenURLTester: bits is self.seen_urls, a bit per docid 0..cap-1
Bit_init(cap) == [d \in 0..(cap - 1) |-> 0]

Bit_is_seen(bits, cap, docid) ==
    IF docid >= cap \/ docid < 0
    THEN [st |-> bits, ret |-> None, exc |-> "IndexError"]
    ELSE [st |-> bits, ret |-> bits[docid] = 1, exc |-> None]

\* a mark_seen that flips the bit
Bit_mark_seen_flip(bits, cap, docid) ==
    IF docid >= cap \/ docid < 0
    THEN [st |-> bits, ret |-> None, exc |-> "IndexError"]
    ELSE [st |-> [bits EXCEPT ![docid] = 1 - @], ret |-> None, exc |-> None]

\* a mark_seen that accepts docid = capacity and marks the last bit
Bit_mark_seen_inclusive(bits, cap, docid) ==
    IF docid > cap \/ docid < 0
    THEN [st |-> bits, ret |-> None, exc |-> "IndexError"]
    ELSE [st |-> [bits EXCEPT ![IF docid = cap THEN cap - 1 ELSE docid] = 1],
          ret |-> None, exc |-> None]

Bit_mark_seen(bits, cap, docid) ==
    IF docid >= cap \/ docid < 0
    THEN [st |-> bits, ret |-> None, exc |-> "IndexError"]
    ELSE [st |-> [bits EXCEPT ![docid] = 1], ret |-> None, exc |-> None]

Bit_seen_count(bits) == Cardinality({d \in DOMAIN bits : bits[d] = 1})

\* init_url_seen_tester: the two tester types
TesterTypes == {"set", "bitarray"}

T_is_seen(type, seen, cap, docid) ==
    IF type = "set"
    THEN [st |-> seen, ret |-> docid \in seen, exc |-> None]
    ELSE Bit_is_seen(seen, cap, docid)

T_mark_seen(type, seen, cap, docid) ==
    IF type = "set"
    THEN [st |-> mark_seen(seen, docid), ret |-> None, exc |-> None]
    ELSE Bit_mark_seen(seen, cap, docid)

T_seen_count(type, seen) ==
    IF type = "set" THEN Set_seen_count(seen) ELSE Bit_seen_count(seen)

\* a store that puts the docno in front of the buffer
store_first(url) == <<url2docno(url)>> \o downloaded

\* Fetcher.store
store(url) == Append(downloaded, url2docno(url))

\* load_downloaded_list with limit=None: chunks 1, 2, ... up to the first missing
RECURSIVE load_chunks(_)
load_chunks(chunk_idx) ==
    IF chunk_idx \notin FileIds THEN <<>>
    ELSE FileContent(chunk_idx) \o load_chunks(chunk_idx + 1)

load_downloaded_list == load_chunks(1)

Contains(q, x) == \E i \in 1..Len(q) : q[i] = x

RECURSIVE clean_loop(_, _, _)
clean_loop(links, url, cleaned_links) ==
    IF links = <<>> THEN cleaned_links
    ELSE LET link_url == Head(links)
         IN clean_loop(Tail(links), url,
               IF link_url # url /\ ~Contains(cleaned_links, link_url)
               THEN Append(cleaned_links, link_url)
               ELSE cleaned_links)

\* a clean_links that compares no link with the page's url
clean_links_keep_self(links, url) == clean_loop(links, UnknownUrl + 1, <<>>)

clean_links(links, url) == clean_loop(links, url, <<>>)

\* link[URL_INDEX] of every link record of doc_data['outlinks']: URL_INDEX is 0,
\* the first field of the record
LinkUrls(records) == [i \in 1..Len(records) |-> Head(records[i])]

SeqsUpTo(S, n) == UNION {[1..k -> S] : k \in 0..n}

----------------------------------------------------------------------------
(* The offset files of utils/utils.py: a file is the sequence of its        *)
(* characters, the digits "0".."9" and the newline                          *)

offset_dim == 10
offset_size == offset_dim + 1

DIGITS == <<"0", "1", "2", "3", "4", "5", "6", "7", "8", "9">>
NEWLINE == "\n"

IsDigit(c) == \E d \in 1..Len(DIGITS) : DIGITS[d] = c
DigitVal(c) == (CHOOSE d \in 1..Len(DIGITS) : DIGITS[d] = c) - 1

RECURSIVE DigitsValue(_)
DigitsValue(s) ==
    IF s = <<>> THEN 0
    ELSE DigitsValue(SubSeq(s, 1, Len(s) - 1)) * 10 + DigitVal(s[Len(s)])

\* str.strip() of the whitespace a file of digits and newlines can hold
RECURSIVE Strip(_)
Strip(s) ==
    IF s = <<>> THEN s
    ELSE IF Head(s) = NEWLINE THEN Strip(Tail(s))
    ELSE IF s[Len(s)] = NEWLINE THEN Strip(SubSeq(s, 1, Len(s) - 1))
    ELSE s

\* int(s) of a string: surrounding whitespace is ignored, anything but a
\* non-empty run of digits raises ValueError
int(s) ==
    LET b == Strip(s)
    IN IF b = <<>> \/ \E k \in 1..Len(b) : ~IsDigit(b[k])
       THEN [ret |-> None, exc |-> "ValueError"]
       ELSE [ret |-> DigitsValue(b), exc |-> None]

\* f.read(n) at position pos: at most n characters, fewer at the end of the file
f_read(file, pos, n) ==
    SubSeq(file, pos + 1, IF pos + n < Len(file) THEN pos + n ELSE Len(file))

\* read_offsets(file_path, i): end_offset is <<>> for None and <<e>> for e
read_offsets(file, i) ==
    LET first == f_read(file, i * offset_size, offset_dim)
        start_offset == int(first)
        after_start == i * offset_size + Len(first)
        separator == f_read(file, after_start, 1)
        second == f_read(file, after_start + Len(separator), offset_dim)
        end_offset == int(second)
    IN IF start_offset.exc # None
       THEN [ret |-> None, exc |-> start_offset.exc]
       ELSE IF separator = <<>>
       THEN [ret |-> [start_offset |-> start_offset.ret, end_offset |-> <<>>],
             exc |-> None]
       ELSE IF end_offset.exc # None
       THEN [ret |-> None, exc |-> end_offset.exc]
       ELSE [ret |-> [start_offset |-> start_offset.ret,
                      end_offset |-> <<end_offset.ret>>],
             exc |-> None]

\* a record of an offset file: the 10-digit zero-padded decimal of v
Pad(v) ==
    [k \in 1..offset_dim |-> DIGITS[((v \div (10 ^ (offset_dim - k))) % 10) + 1]]

\* the offset file of the offsets vals; the last record ends with a newline
\* iff trailing_newline
RECURSIVE FileOf(_, _)
FileOf(vals, trailing_newline) ==
    IF vals = <<>> THEN <<>>
    ELSE Pad(Head(vals))
         \o (IF Len(vals) > 1 \/ trailing_newline THEN <<NEWLINE>> ELSE <<>>)
         \o FileOf(Tail(vals), trailing_newline)

\* the byte offsets of the documents of a shard: increasing
OFFSETS == {k * OffsetStep : k \in 0..(MaxOffsets - 1)}

OFFSET_FILES ==
    {FileOf(vals, nl) :
        vals \in {s \in SeqsUpTo(OFFSETS, MaxRecords) :
                    \A k \in 1..(Len(s) - 1) : s[k] < s[k + 1]},
        nl \in BOOLEAN}

\* The shard <prefix>.json.gz and its sidecar <prefix>.offset on disk: both
\* there with a JSON record at the offset ("record"), both there with a record
\* that json.loads rejects ("malformed"), or one of the two files missing
SHARD_FILES == {"record", "malformed", "no offset file", "no shard file"}

\* random_read_json_gz: open() raises FileNotFoundError for a missing shard,
\* json.JSONDecodeError is caught and None (<<>>) returned
random_read_json_gz(files, doc_data) ==
    IF files = "no shard file" THEN [ret |-> None, exc |-> "FileNotFoundError"]
    ELSE IF files = "malformed" THEN [ret |-> <<>>, exc |-> None]
    ELSE [ret |-> <<doc_data>>, exc |-> None]

\* navigate_to_id(dir_path, id): whatever read_offsets or random_read_json_gz
\* raises is raised again as RuntimeError; <<>> is None, <<d>> the record d
navigate_to_id(files, file, i, doc_data) ==
    LET offsets == IF files = "no offset file"
                   THEN [ret |-> None, exc |-> "FileNotFoundError"]
                   ELSE read_offsets(file, i)
    IN IF offsets.exc # None
       THEN [ret |-> None, exc |-> "RuntimeError"]
       ELSE LET r == random_read_json_gz(files, doc_data)
            IN IF r.exc # None
               THEN [ret |-> None, exc |-> "RuntimeError"]
               ELSE r

\* Parser.__parse_outlinks(page): raw_outlinks is doc_data['outlinks']
__parse_outlinks(files, file, i, raw_outlinks, url) ==
    LET doc_data == navigate_to_id(files, file, i, raw_outlinks)
    IN IF doc_data.exc # None
       THEN [kind |-> "RuntimeError", links |-> <<>>]
       ELSE IF doc_data.ret = <<>>
       THEN [kind |-> "None", links |-> <<>>]
       ELSE [kind |-> "list", links |-> clean_links(LinkUrls(doc_data.ret[1]), url)]

\* what doc_data['outlinks'] can hold
RAW_LINKS == SeqsUpTo(PAGES \cup {UnknownUrl}, MaxLinks)

\* Parser.__parse_outlinks(page): the cleaned list, None when the record is
\* not valid JSON, RuntimeError when the shard or its offsets cannot be read
ParseResults(url) ==
    {[kind |-> "list", links |-> clean_links(raw, url)] : raw \in RAW_LINKS}
    \cup {[kind |-> "None", links |-> <<>>], [kind |-> "RuntimeError", links |-> <<>>]}

\* whether the frontier still holds an entry of url
InFrontier(pol, s, url) ==
    IF pol \in QualityPolicies
    THEN \E i \in 1..Len(s.queue) : s.queue[i][2] = url
    ELSE Contains(s.queue, url)

\* A value read from the corpus: the one read before, if it was kept
Read(memo, url, fresh) == IF memo[url] = <<>> THEN fresh ELSE memo[url][1]

\* no offset file is being read
NoShard == offset_file = <<>> /\ doc_seq = 0 /\ shard_files = None

\* no crawl is running: nothing read, downloaded, written or counted
Idle ==
    /\ seeds_read = 0
    /\ downloaded = <<>>
    /\ num_stored = 0
    /\ writes = <<>>
    /\ page = 0
    /\ todo = <<>>
    /\ processed_pages = 0
    /\ outlinks = [u \in PAGES |-> <<>>]
    /\ qscores = [u \in PAGES |-> <<>>]
    /\ notfound_seedurls = 0
    /\ wrong_linked_docid = 0
    /\ num_noutlinks = 0
    /\ failed_dowloads = 0

\* the orchestrator's subcomponents and counters as __init__ and the first two
\* lines of crawl() leave them
NotStarted ==
    /\ seeds_read = 0
    /\ seen_urls = {}
    /\ capacity = None
    /\ NoShard
    /\ downloaded = <<>>
    /\ num_stored = 0
    /\ writes = <<>>
    /\ page = 0
    /\ todo = <<>>
    /\ processed_pages = 0
    /\ outlinks = [u \in 1..total_docs |-> <<>>]
    /\ qscores = [u \in 1..total_docs |-> <<>>]
    /\ notfound_seedurls = 0
    /\ wrong_linked_docid = 0
    /\ num_noutlinks = 0
    /\ failed_dowloads = 0

\* no Orchestrator: the queue or the frontier manager is used on its own
NoCrawl ==
    /\ pc = "idle"
    /\ updates_enabled = FALSE
    /\ max_pages = 0
    /\ save_every_n_pages = 1
    /\ total_docs = NumPages
    /\ NotStarted

----------------------------------------------------------------------------
(* History of the calls made on the queue or frontier *)

Max2(a, b) == IF a >= b THEN a ELSE b

\* fathers before any URL is enqueued
NotAdded == -1

NoFathers == [u \in PAGES \cup {UnknownUrl} |-> NotAdded]

\* sup: for a get/pop, the highest priority that had been supplied for the
\* item returned (None for the other calls).
Call(op, item, priority, r, sup) ==
    [op |-> op, item |-> item, priority |-> priority, ret |-> r.ret, exc |-> r.exc,
     sup |-> sup]

NoCall == [op |-> None, item |-> None, priority |-> None, ret |-> None, exc |-> None,
           sup |-> None]

SetPQ(s) ==
    /\ queue' = s.queue
    /\ deleted' = s.deleted
    /\ num_enqueued' = s.num_enqueued
    /\ num_deleted' = s.num_deleted

----------------------------------------------------------------------------
(* The quality-updating queue driven directly: put / update / get *)

InitPQ ==
    /\ policy = "PQueuePriorityQueue"
    /\ queue = PQ_init.queue
    /\ deleted = PQ_init.deleted
    /\ num_enqueued = PQ_init.num_enqueued
    /\ num_deleted = PQ_init.num_deleted
    /\ last = NoCall
    /\ supplied = [u \in URLS |-> None]
    /\ added = <<>>
    /\ popped = <<>>
    /\ fathers = NoFathers
    /\ NoCrawl

Put(item, priority) ==
    /\ LET r == PQ_put(PQState, item, priority)
       IN /\ SetPQ(r.st)
          /\ last' = Call("put", item, priority, r, None)
          /\ supplied' = IF r.exc = None
                         THEN [supplied EXCEPT ![item] = priority]
                         ELSE supplied
    /\ UNCHANGED <<fathers, policy, added, popped, crawlVars>>

Update(item, priority) ==
    /\ LET r == PQ_update(PQState, item, priority)
       IN /\ SetPQ(r.st)
          /\ last' = Call("update", item, priority, r, None)
          /\ supplied' = IF item \in DOMAIN deleted
                         THEN [supplied EXCEPT ![item] = Max2(@, priority)]
                         ELSE supplied
    /\ UNCHANGED <<fathers, policy, added, popped, crawlVars>>

Get ==
    /\ LET r == PQ_get(PQState)
       IN /\ SetPQ(r.st)
          /\ last' = Call("get", None, None, r,
                          IF r.exc = None THEN supplied[r.ret[1]] ELSE None)
          /\ supplied' = IF r.exc = None
                         THEN [supplied EXCEPT ![r.ret[1]] = None]
                         ELSE supplied
    /\ UNCHANGED <<fathers, policy, added, popped, crawlVars>>

\* _cleanup_deleted() called on its own, as tests/test_pqueue.py does; last.sup
\* records num_deleted as it was before the call
Cleanup ==
    /\ LET r == _cleanup_deleted(PQState)
       IN /\ SetPQ(r.st)
          /\ last' = Call("_cleanup_deleted", None, None, r, num_deleted)
    /\ UNCHANGED <<fathers, policy, supplied, added, popped, crawlVars>>

NextPQ ==
    \/ \E item \in URLS, priority \in PRIORITIES : Put(item, priority)
    \/ \E item \in URLS, priority \in PRIORITIES : Update(item, priority)
    \/ Get
    \/ Cleanup

SpecPQ == InitPQ /\ [][NextPQ]_vars

----------------------------------------------------------------------------
(* A frontier manager of any policy driven directly:                        *)
(* add / add_with_max_priority / update / pop                               *)

InitFrontier ==
    /\ policy \in Policies
    /\ queue = <<>>
    /\ deleted = <<>>
    /\ num_enqueued = 0
    /\ num_deleted = 0
    /\ last = NoCall
    /\ supplied = [u \in URLS |-> None]
    /\ added = <<>>
    /\ popped = <<>>
    /\ fathers = NoFathers
    /\ NoCrawl

FAdd(url, qscore, father) ==
    /\ Len(added) < MaxPuts
    /\ LET r == F_add(policy, PQState, url, qscore, father)
       IN /\ SetPQ(r.st)
          /\ last' = Call("add", url, None, r, None)
          /\ added' = IF r.exc = None THEN Append(added, url) ELSE added
    /\ UNCHANGED <<fathers, policy, supplied, popped, crawlVars>>

FAddWithMaxPriority(url) ==
    /\ Len(added) < MaxPuts
    /\ LET r == F_add_with_max_priority(policy, PQState, url)
       IN /\ SetPQ(r.st)
          /\ last' = Call("add_with_max_priority", url, None, r, None)
          /\ added' = IF r.exc = None THEN Append(added, url) ELSE added
    /\ UNCHANGED <<fathers, policy, supplied, popped, crawlVars>>

FUpdate(url, qscore) ==
    /\ \E i \in MatchIdx(IF policy = "quality-heap" THEN queue ELSE <<>>, url) :
          LET r == F_update(policy, PQState, url, qscore, i)
          IN /\ SetPQ(r.st)
             /\ last' = Call("update", url, None, r, None)
    /\ UNCHANGED <<fathers, policy, supplied, added, popped, crawlVars>>

FPop ==
    /\ \E random_index \in RandomIdx(policy, PQState) :
          LET r == F_pop(policy, PQState, random_index)
          IN /\ SetPQ(r.st)
             /\ last' = Call("pop", None, None, r, None)
             /\ popped' = IF r.exc = None THEN Append(popped, r.ret) ELSE popped
    /\ UNCHANGED <<fathers, policy, supplied, added, crawlVars>>

NextFrontier ==
    \/ \E url \in URLS, qscore \in QSCORE_ARGS, father \in {None, "page"} :
          FAdd(url, qscore, father)
    \/ \E url \in URLS : FAddWithMaxPriority(url)
    \/ \E url \in URLS, qscore \in QSCORE_ARGS : FUpdate(url, qscore)
    \/ FPop

SpecFrontier == InitFrontier /\ [][NextFrontier]_vars

----------------------------------------------------------------------------
(* The frontier managers with the calls the crawl loop never makes:        *)
(* QualityFrontierManager.remove and a get() on the manager's queue        *)

FRemove(url) ==
    /\ policy \in QualityPolicies
    /\ num_enqueued + MaxUnderflow > 0
    /\ LET r == F_remove(policy, PQState, url)
       IN /\ SetPQ(r.st)
          /\ last' = Call("remove", url, None, r, None)
    /\ UNCHANGED <<fathers, policy, supplied, added, popped, crawlVars>>

\* self.queue.get(): last records the item of the (item, priority) returned
FGet ==
    /\ policy \in QualityPolicies
    /\ LET g == IF policy = "quality-updating" THEN PQ_get(PQState) ELSE PQH_get(PQState)
       IN /\ SetPQ(g.st)
          /\ last' = Call("get", None, None,
                          [g EXCEPT !.ret = IF g.exc = None THEN g.ret[1] ELSE None], None)
          /\ popped' = IF g.exc = None THEN Append(popped, g.ret[1]) ELSE popped
    /\ UNCHANGED <<fathers, policy, supplied, added, crawlVars>>

NextRemove ==
    \/ NextFrontier
    \/ \E url \in URLS : FRemove(url)
    \/ FGet

SpecRemove == InitFrontier /\ [][NextRemove]_vars

----------------------------------------------------------------------------
(* The quality-updating queue driven directly, remove() included:           *)
(* put / update / get / _cleanup_deleted / remove                           *)

Remove(item) ==
    /\ num_enqueued + MaxUnderflow > 0
    /\ LET r == PQ_remove(PQState, item)
       IN /\ SetPQ(r.st)
          /\ last' = Call("remove", item, None, r, None)
    /\ UNCHANGED <<fathers, policy, supplied, added, popped, crawlVars>>

NextCompact ==
    \/ NextPQ
    \/ \E item \in URLS : Remove(item)

SpecCompact == InitPQ /\ [][NextCompact]_vars

----------------------------------------------------------------------------
(* Orchestrator.crawl(): populate_frontier, then the loop over the frontier *)

(* A seen-url tester of either type driven directly: mark_seen / is_seen    *)

DOCIDS == -1..MaxCapacity

InitSeen ==
    /\ policy \in TesterTypes
    /\ capacity \in (IF policy = "set" THEN {None} ELSE 1..MaxCapacity)
    /\ seen_urls = IF policy = "set" THEN {} ELSE Bit_init(capacity)
    /\ queue = <<>>
    /\ deleted = <<>>
    /\ num_enqueued = 0
    /\ num_deleted = 0
    /\ last = NoCall
    /\ supplied = [u \in URLS |-> None]
    /\ added = <<>>
    /\ popped = <<>>
    /\ fathers = NoFathers
    /\ pc = "idle"
    /\ updates_enabled = FALSE
    /\ max_pages = 0
    /\ save_every_n_pages = 1
    /\ total_docs = NumPages
    /\ NoShard
    /\ Idle

\* added records the docids marked, in order
MarkSeen(docid) ==
    /\ Len(added) < MaxMarks
    /\ LET r == T_mark_seen(policy, seen_urls, capacity, docid)
       IN /\ seen_urls' = r.st
          /\ last' = Call("mark_seen", docid, None, r, None)
          /\ added' = IF r.exc = None THEN Append(added, docid) ELSE added
    /\ UNCHANGED <<fathers, frontierVars, supplied, popped, pc, configVars, seeds_read,
                   fetcherVars, page, todo, processed_pages, corpusVars, counterVars>>

IsSeen(docid) ==
    /\ LET r == T_is_seen(policy, seen_urls, capacity, docid)
       IN /\ seen_urls' = r.st
          /\ last' = Call("is_seen", docid, None, r, None)
    /\ UNCHANGED <<fathers, frontierVars, supplied, added, popped, pc, configVars, seeds_read,
                   fetcherVars, page, todo, processed_pages, corpusVars, counterVars>>

NextSeen ==
    \/ \E docid \in DOCIDS : MarkSeen(docid)
    \/ \E docid \in DOCIDS : IsSeen(docid)

SpecSeen == InitSeen /\ [][NextSeen]_vars

(* Parser.clean_links applied to a list of link records <<url, anchor>>     *)

ANCHORS == {"a", "b"}

LINK_RECORDS == (PAGES \cup {UnknownUrl}) \X ANCHORS

InitClean ==
    /\ policy = "Parser"
    /\ queue = <<>>
    /\ deleted = <<>>
    /\ num_enqueued = 0
    /\ num_deleted = 0
    /\ last = NoCall
    /\ supplied = [u \in URLS |-> None]
    /\ added = <<>>
    /\ popped = <<>>
    /\ fathers = NoFathers
    /\ pc = "idle"
    /\ updates_enabled = FALSE
    /\ max_pages = 0
    /\ save_every_n_pages = 1
    /\ total_docs = NumPages
    /\ capacity = None
    /\ NoShard
    /\ seen_urls = {}
    /\ seeds_read = 0
    /\ downloaded = <<>>
    /\ num_stored = 0
    /\ writes = <<>>
    /\ page \in PAGES
    /\ todo \in SeqsUpTo(LINK_RECORDS, MaxRawLinks)
    /\ processed_pages = 0
    /\ outlinks = [u \in PAGES |-> <<>>]
    /\ qscores = [u \in PAGES |-> <<>>]
    /\ notfound_seedurls = 0
    /\ wrong_linked_docid = 0
    /\ num_noutlinks = 0
    /\ failed_dowloads = 0

\* __parse_outlinks: outlinks = self.clean_links(raw_outlinks, url)
CleanLinks ==
    /\ last.op = None
    /\ last' = Call("clean_links", page, None,
                    [ret |-> clean_links(LinkUrls(todo), page), exc |-> None], None)
    /\ UNCHANGED <<fathers, frontierVars, crawlVars, supplied, added, popped>>

NextClean == CleanLinks

SpecClean == InitClean /\ [][NextClean]_vars

(* read_offsets applied to an offset file and a document index *)

InitOffsets ==
    /\ policy = "read_offsets"
    /\ queue = <<>>
    /\ deleted = <<>>
    /\ num_enqueued = 0
    /\ num_deleted = 0
    /\ last = NoCall
    /\ supplied = [u \in URLS |-> None]
    /\ added = <<>>
    /\ popped = <<>>
    /\ fathers = NoFathers
    /\ pc = "idle"
    /\ updates_enabled = FALSE
    /\ max_pages = 0
    /\ save_every_n_pages = 1
    /\ total_docs = NumPages
    /\ capacity = None
    /\ seen_urls = {}
    /\ offset_file \in OFFSET_FILES
    /\ doc_seq \in 0..MaxRecords
    /\ shard_files = None
    /\ Idle

\* navigate_to_id: start_offset, end_offset = read_offsets(offsets_fpath, doc_seq)
ReadOffsets ==
    /\ last.op = None
    /\ last' = Call("read_offsets", doc_seq, None, read_offsets(offset_file, doc_seq),
                    None)
    /\ UNCHANGED <<fathers, frontierVars, crawlVars, supplied, added, popped>>

NextOffsets == ReadOffsets

SpecOffsets == InitOffsets /\ [][NextOffsets]_vars

(* Parser.__parse_outlinks applied to a page whose record is read from a     *)
(* shard: todo holds doc_data['outlinks'], the link records <<url, anchor>>  *)

InitShard ==
    /\ policy = "Parser"
    /\ queue = <<>>
    /\ deleted = <<>>
    /\ num_enqueued = 0
    /\ num_deleted = 0
    /\ last = NoCall
    /\ supplied = [u \in URLS |-> None]
    /\ added = <<>>
    /\ popped = <<>>
    /\ fathers = NoFathers
    /\ pc = "idle"
    /\ updates_enabled = FALSE
    /\ max_pages = 0
    /\ save_every_n_pages = 1
    /\ total_docs = NumPages
    /\ capacity = None
    /\ seen_urls = {}
    /\ offset_file \in OFFSET_FILES
    /\ doc_seq \in 0..MaxRecords
    /\ shard_files \in SHARD_FILES
    /\ seeds_read = 0
    /\ downloaded = <<>>
    /\ num_stored = 0
    /\ writes = <<>>
    /\ page \in PAGES
    /\ todo \in SeqsUpTo(LINK_RECORDS, MaxLinks)
    /\ processed_pages = 0
    /\ outlinks = [u \in PAGES |-> <<>>]
    /\ qscores = [u \in PAGES |-> <<>>]
    /\ notfound_seedurls = 0
    /\ wrong_linked_docid = 0
    /\ num_noutlinks = 0
    /\ failed_dowloads = 0

\* parse_metadata: metadata["outlinks"] = self.__parse_outlinks(page); last.ret
\* is the kind of result and last.sup the list returned
ParseOutlinks ==
    /\ last.op = None
    /\ LET res == __parse_outlinks(shard_files, offset_file, doc_seq, todo, page)
       IN last' = [op |-> "__parse_outlinks", item |-> page, priority |-> None,
                   ret |-> res.kind,
                   exc |-> IF res.kind = "RuntimeError" THEN "RuntimeError" ELSE None,
                   sup |-> res.links]
    /\ UNCHANGED <<fathers, frontierVars, crawlVars, supplied, added, popped>>

NextShard == ParseOutlinks

SpecShard == InitShard /\ [][NextShard]_vars

----------------------------------------------------------------------------
(* Orchestrator.crawl *)

CrawlPolicies == {"bfs", "dfs"} \cup QualityPolicies

\* Orchestrator.oracle
oracle == policy \in QualityPolicies

\* fetcher.py reads the same configuration key as the default of the
\* Orchestrator's save_every_n_pages, which crawl.py never overrides
SAVE_EVERY_N_PAGES == save_every_n_pages

\* the qscores kept for later reads: of the pages an update can still reach
KeepQScores(memo, s) ==
    [u \in DOMAIN memo |->
        IF policy = "quality-updating" /\ u \in DOMAIN s.deleted THEN memo[u] ELSE <<>>]

Init ==
    /\ policy \in CrawlPolicies
    /\ queue = <<>>
    /\ deleted = <<>>
    /\ num_enqueued = 0
    /\ num_deleted = 0
    /\ last = NoCall
    /\ supplied = [u \in URLS |-> None]
    /\ added = <<>>
    /\ popped = <<>>
    /\ fathers = NoFathers
    /\ pc = "populate"
    /\ updates_enabled \in (IF policy \in QualityPolicies
                            THEN {policy = "quality-updating"} ELSE BOOLEAN)
    /\ max_pages \in 0..NumPages
    /\ save_every_n_pages \in 1..MaxSaveEvery
    /\ total_docs = NumPages
    /\ NotStarted

\* an exception leaves crawl(): the state stays as it was when it was raised
Crash == pc' = "crashed"

\* populate_frontier: one iteration of the loop over self.seed_urls; last.item
\* holds the loop variable seed_url until populate_frontier returns
PopulateSeed(seed_url, fresh_qscore) ==
    /\ pc = "populate"
    /\ seeds_read < MaxSeeds
    /\ seeds_read' = seeds_read + 1
    /\ last' = [NoCall EXCEPT !.op = "populate_frontier", !.item = seed_url]
    /\ IF ~InCorpus(seed_url)
       THEN /\ notfound_seedurls' = notfound_seedurls + 1
            /\ UNCHANGED <<pc, frontierVars, added, fathers, seen_urls, qscores>>
       ELSE LET docid == url2docno(seed_url)
                qscore == IF oracle THEN Read(qscores, seed_url, fresh_qscore)
                          ELSE NoQScore
                r == IF ~oracle
                     THEN F_add_with_max_priority(policy, PQState, seed_url)
                     ELSE F_add(policy, PQState, seed_url, qscore, None)
            IN /\ UNCHANGED notfound_seedurls
               /\ IF r.exc # None
                  THEN /\ Crash
                       /\ UNCHANGED <<frontierVars, added, fathers, seen_urls, qscores>>
                  ELSE /\ SetPQ(r.st)
                       /\ added' = Append(added, seed_url)
                       /\ fathers' = IF fathers[seed_url] = NotAdded
                                     THEN [fathers EXCEPT ![seed_url] = 0]
                                     ELSE fathers
                       /\ seen_urls' = mark_seen(seen_urls, docid)
                       /\ qscores' = KeepQScores(
                              [qscores EXCEPT ![seed_url] = <<qscore>>], r.st)
                       /\ UNCHANGED <<pc, policy>>
    /\ UNCHANGED <<supplied, popped, configVars, fetcherVars, page, todo,
                   processed_pages, outlinks, wrong_linked_docid, num_noutlinks,
                   failed_dowloads>>

\* populate_frontier returns: self.seed_urls is exhausted
PopulateDone ==
    /\ pc = "populate"
    /\ pc' = "crawl"
    /\ last' = NoCall
    /\ UNCHANGED <<frontierVars, supplied, added, fathers, popped, configVars, seeds_read,
                   seen_urls, fetcherVars, page, todo, processed_pages, corpusVars,
                   counterVars>>

\* the limit compared with > in place of >=
LimitReached_late == max_pages > 0 /\ num_dowloaded > max_pages

LimitReached == max_pages > 0 /\ num_dowloaded >= max_pages

\* one pass through the head of the while loop: pop, download, store, parse
Download ==
    /\ pc = "crawl"
    /\ F_enqueued(policy, PQState) > 0
    /\ ~LimitReached
    /\ processed_pages' = num_dowloaded
    /\ \E random_index \in RandomIdx(policy, PQState) :
          LET r == F_pop(policy, PQState, random_index)
              url == r.ret
          IN IF r.exc # None
             THEN /\ Crash
                  /\ UNCHANGED <<frontierVars, popped, downloaded, page, todo,
                                 corpusVars, num_noutlinks, failed_dowloads>>
             ELSE /\ SetPQ(r.st)
                  /\ popped' = Append(popped, url)
                  /\ qscores' = KeepQScores(qscores, r.st)
                  /\ UNCHANGED policy
                  /\ IF ~InCorpus(url)
                     THEN /\ failed_dowloads' = failed_dowloads + 1
                          /\ UNCHANGED <<pc, downloaded, page, todo, outlinks,
                                         num_noutlinks>>
                     ELSE /\ downloaded' = store(url)
                          /\ UNCHANGED failed_dowloads
                          /\ \E fresh \in ParseResults(url) :
                                LET res == Read(outlinks, url, fresh)
                                IN /\ outlinks' =
                                        [outlinks EXCEPT ![url] =
                                            IF InFrontier(policy, r.st, url)
                                               /\ res.kind # "RuntimeError"
                                            THEN <<res>> ELSE <<>>]
                                   /\ IF res.kind = "RuntimeError"
                                      THEN /\ Crash
                                           /\ UNCHANGED <<page, todo, num_noutlinks>>
                                      ELSE /\ pc' = "links"
                                           /\ page' = url
                                           /\ todo' = res.links
                                           /\ num_noutlinks' =
                                                IF res.kind = "None"
                                                THEN num_noutlinks + 1
                                                ELSE num_noutlinks
    /\ UNCHANGED <<last, supplied, added, fathers, configVars, seeds_read, seen_urls,
                   num_stored, writes, notfound_seedurls, wrong_linked_docid>>

\* process_page: one iteration of the loop over the outlinks
ProcessLink ==
    /\ pc = "links"
    /\ todo # <<>>
    /\ todo' = Tail(todo)
    /\ LET linked_url == Head(todo)
       IN IF ~InCorpus(linked_url)
          THEN /\ wrong_linked_docid' = wrong_linked_docid + 1
               /\ UNCHANGED <<pc, frontierVars, added, fathers, seen_urls, qscores>>
          ELSE \E fresh_qscore \in (IF oracle THEN QSCORE_ARGS ELSE {NoQScore}) :
               LET linked_docid == url2docno(linked_url)
                   qscore == IF oracle THEN Read(qscores, linked_url, fresh_qscore)
                             ELSE NoQScore
               IN /\ UNCHANGED wrong_linked_docid
                  /\ IF is_seen(linked_docid)
                     THEN IF ~updates_enabled
                          THEN UNCHANGED <<pc, frontierVars, added, fathers, seen_urls, qscores>>
                          ELSE \E i \in MatchIdx(IF policy = "quality-heap"
                                                 THEN queue ELSE <<>>, linked_url) :
                               LET r == F_update(policy, PQState, linked_url, qscore, i)
                               IN IF r.exc # None
                                  THEN /\ Crash
                                       /\ UNCHANGED <<frontierVars, added, fathers, seen_urls,
                                                      qscores>>
                                  ELSE /\ SetPQ(r.st)
                                       /\ qscores' = KeepQScores(
                                            [qscores EXCEPT ![linked_url] = <<qscore>>],
                                            r.st)
                                       /\ UNCHANGED <<pc, policy, added, fathers, seen_urls>>
                     ELSE LET r == F_add(policy, PQState, linked_url, qscore, "page")
                          IN /\ seen_urls' = mark_seen(seen_urls, linked_docid)
                             /\ IF r.exc # None
                                THEN /\ Crash
                                     /\ UNCHANGED <<frontierVars, added, fathers, qscores>>
                                ELSE /\ SetPQ(r.st)
                                     /\ added' = Append(added, linked_url)
                                     /\ fathers' = IF fathers[linked_url] = NotAdded
                                                   THEN [fathers EXCEPT ![linked_url] = page]
                                                   ELSE fathers
                                     /\ qscores' = KeepQScores(
                                          [qscores EXCEPT ![linked_url] = <<qscore>>],
                                          r.st)
                                     /\ UNCHANGED <<pc, policy>>
    /\ UNCHANGED <<last, supplied, popped, configVars, seeds_read, fetcherVars, page,
                   processed_pages, outlinks, notfound_seedurls, num_noutlinks,
                   failed_dowloads>>

\* process_page returned: the periodic checkpoint at the end of the loop body
EndPage ==
    /\ pc = "links"
    /\ todo = <<>>
    /\ pc' = "crawl"
    /\ page' = 0
    /\ IF (processed_pages % save_every_n_pages) = 0 /\ processed_pages > 1
       THEN /\ writes' = write_downloads_to_file(FALSE)
            /\ num_stored' = num_stored + Len(downloaded)
            /\ downloaded' = <<>>
       ELSE UNCHANGED fetcherVars
    /\ UNCHANGED <<frontierVars, historyVars, configVars, seeds_read, seen_urls, todo,
                   processed_pages, corpusVars, counterVars>>

\* the loop ends (frontier empty, or the break on max_pages): the final flush
Finish ==
    /\ pc = "crawl"
    /\ F_enqueued(policy, PQState) <= 0 \/ LimitReached
    /\ pc' = "done"
    /\ processed_pages' = IF F_enqueued(policy, PQState) > 0 THEN num_dowloaded
                          ELSE processed_pages
    /\ writes' = write_downloads_to_file(TRUE)
    /\ UNCHANGED <<frontierVars, historyVars, configVars, seeds_read, seen_urls,
                   downloaded, num_stored, page, todo, corpusVars, counterVars>>

Next ==
    \/ \E seed_url \in PAGES \cup {UnknownUrl}, fresh_qscore \in QSCORE_ARGS :
          PopulateSeed(seed_url, fresh_qscore)
    \/ PopulateDone
    \/ Download
    \/ ProcessLink
    \/ EndPage
    \/ Finish

Spec == Init /\ [][Next]_vars

(* crawl() of the two traversal policies over a corpus of one more URL, so  *)
(* that two seeds and two outlinks of each fill two levels                  *)

TraversalPolicies == {"bfs", "dfs"}

InitTraversal ==
    /\ policy \in TraversalPolicies
    /\ queue = <<>>
    /\ deleted = <<>>
    /\ num_enqueued = 0
    /\ num_deleted = 0
    /\ last = NoCall
    /\ supplied = [u \in URLS |-> None]
    /\ added = <<>>
    /\ popped = <<>>
    /\ fathers = NoFathers
    /\ pc = "populate"
    /\ updates_enabled \in BOOLEAN
    /\ max_pages \in 0..(NumPages + 1)
    /\ save_every_n_pages \in 1..MaxSaveEvery
    /\ total_docs = NumPages + 1
    /\ NotStarted

SpecTraversal == InitTraversal /\ [][Next]_vars

----------------------------------------------------------------------------
(* Claims about the quality-updating queue (SpecPQ) *)

RecordedPriority(d, u) == _external_priority(d[u].priority)

HasEntry(q, e) == \E i \in 1..Len(q) : q[i] = e

\* C1: update(u, p) on a tracked URL u is accepted (a heap entry (p, u) is
\* pushed and the table's best priority of u becomes p) if and only if p is
\* strictly higher than the best priority recorded for u, so that the recorded
\* priority of a tracked URL never decreases.
C1_UpdateAcceptedIffHigher ==
    [][\A u \in URLS :
          (last'.op = "update" /\ last'.item = u /\ u \in DOMAIN deleted)
          => LET p == last'.priority
                 best == RecordedPriority(deleted, u)
                 accepted == /\ u \in DOMAIN deleted'
                             /\ RecordedPriority(deleted', u) = p
                             /\ HasEntry(queue', <<_internal_priority(p), u>>)
                             /\ ~HasEntry(queue, <<_internal_priority(p), u>>)
             IN /\ accepted <=> (p > best)
                /\ u \in DOMAIN deleted' => RecordedPriority(deleted', u) >= best
      ]_vars

\* C2: the priority returned by get() with a URL equals the maximum of the
\* priorities supplied for it by its put and by the updates made while it was
\* enqueued.
C2_GetReturnsMaxSupplied ==
    (last.op = "get" /\ last.exc = None) => last.ret[2] = last.sup

\* C3: get() returns the URLs in descending order of the highest priority
\* supplied for each: no URL still enqueued after a get() was supplied a
\* higher priority than the URL just returned.
C3_GetInDescendingSuppliedOrder ==
    (last.op = "get" /\ last.exc = None)
    => \A v \in DOMAIN deleted : supplied[v] <= last.sup

----------------------------------------------------------------------------
(* Claims about the frontier managers (SpecFrontier) *)

NoUrlAddedTwice == \A i, j \in 1..Len(added) : added[i] = added[j] => i = j

Enqueued == F_enqueued(policy, PQState)

\* C4: for each of the five policies, as long as no URL has been added twice,
\* enqueued() is the number of URLs added minus the number of URLs returned by
\* pop, whatever the number of stale heap entries left by updates.
C4_EnqueuedCount ==
    NoUrlAddedTwice => Enqueued = Len(added) - Len(popped)

C4_Witness ==
    /\ policy = "quality-updating"
    /\ NoUrlAddedTwice
    /\ Len(added) = 2
    /\ Len(popped) = 1
    /\ num_deleted > 0
    /\ Enqueued = 1

----------------------------------------------------------------------------
(* Claims about Orchestrator.crawl() (Spec) *)

\* the docnos of the URLs popped so far whose download succeeded, in pop order
DownloadSequence ==
    LET ok == SelectSeq(popped, InCorpus)
    IN [k \in 1..Len(ok) |-> url2docno(ok[k])]

\* the records persisted by the regular checkpoints, in the order written
RECURSIVE PersistedIn(_)
PersistedIn(ws) ==
    IF ws = <<>> THEN <<>>
    ELSE (IF Head(ws).last THEN <<>> ELSE Head(ws).data) \o PersistedIn(Tail(ws))

DownloadLog == PersistedIn(writes) \o downloaded

IsPrefix(s, t) == Len(s) <= Len(t) /\ s = SubSeq(t, 1, Len(s))

Count(s, x) == Cardinality({i \in 1..Len(s) : s[i] = x})

\* C5: once crawl() has made its final flush, load_downloaded_list returns
\* the docnos of the downloaded pages in download order.
C5_RoundTrip ==
    pc = "done" => load_downloaded_list = DownloadSequence

\* C6: with max_pages > 0 the number of downloaded pages never exceeds
\* max_pages, and no step pops a URL once that number has reached max_pages.
C6_MaxPages ==
    /\ [](max_pages > 0 => num_dowloaded <= max_pages)
    /\ [][(max_pages > 0 /\ num_dowloaded >= max_pages) => popped' = popped]_vars

C6_Witness ==
    /\ pc = "done"
    /\ max_pages = 2
    /\ num_dowloaded = max_pages
    /\ F_enqueued(policy, PQState) > 0

\* C7: the persisted records followed by the buffer are the docnos of the
\* URLs popped and downloaded so far, in pop order, and every step leaves the
\* log as it was or extends it at the end.
C7_LogAppendOnlyInPopOrder ==
    /\ [](DownloadLog = DownloadSequence)
    /\ [][IsPrefix(DownloadLog, DownloadLog')]_vars

C7_Witness ==
    /\ num_stored = 3
    /\ Len(downloaded) = 1
    /\ DownloadLog = DownloadSequence

\* C8: no step enqueues a URL whose docno is already marked in the SeenSet.
C8_SeenNeverEnqueuedAgain ==
    [][\A u \in PAGES :
          is_seen(url2docno(u)) => Count(added', u) = Count(added, u)]_vars

\* C9: at every step boundary the docnos marked in the SeenSet are the docnos
\* of the URLs enqueued so far.
C9_SeenIffEnqueued ==
    seen_urls = {url2docno(added[k]) : k \in 1..Len(added)}

C9_Witness ==
    /\ seeds_read = 1
    /\ Cardinality(seen_urls) = 3
    /\ Len(added) = 3
    /\ pc = "links"

----------------------------------------------------------------------------
(* Claims about the lazy frontier managers (SpecFrontier) *)

Reverse(s) == [k \in 1..Len(s) |-> s[Len(s) + 1 - k]]

\* s can be obtained from t by deleting elements
RECURSIVE IsSubSeq(_, _)
IsSubSeq(s, t) ==
    IF s = <<>> THEN TRUE
    ELSE IF t = <<>> THEN FALSE
    ELSE IF Head(s) = Head(t) THEN IsSubSeq(Tail(s), Tail(t)) \/ IsSubSeq(s, Tail(t))
    ELSE IsSubSeq(s, Tail(t))

\* the step is a call of pop that returned a URL
PopReturned == last'.op = "pop" /\ last'.exc = None

\* C11: the DFS frontier is LIFO.  The queue holds the URLs added and not yet
\* popped, in the order of their adds, and pop returns and removes the last
\* of them, the most recently added; while pops follow all the adds, the URLs
\* popped are the last adds in reverse, so that a frontier emptied this way has
\* popped the reverse of the add order.
C11_DfsLifo ==
    /\ [](policy = "dfs" =>
            /\ IsSubSeq(queue, added)
            /\ \A u \in URLS : Count(queue, u) + Count(popped, u) = Count(added, u))
    /\ [][(policy = "dfs" /\ PopReturned) =>
            /\ last'.ret = queue[Len(queue)]
            /\ queue' = SubSeq(queue, 1, Len(queue) - 1)
            /\ (queue \o Reverse(popped) = added
                  => queue' \o Reverse(popped') = added)]_vars

C11_Witness ==
    /\ policy = "dfs"
    /\ Len(added) = 2
    /\ added[1] # added[2]
    /\ popped = Reverse(added)
    /\ last.op = "pop"

\* C12: a pop of the random frontier returns a URL that was enqueued, removes
\* one occurrence of it and leaves the number of occurrences of every other
\* URL as it was; the URLs enqueued and the URLs popped together are the URLs
\* added, so an emptied frontier has popped a permutation of the adds.
C12_RandomPopPermutation ==
    /\ [](policy = "random" =>
            \A u \in URLS : Count(queue, u) + Count(popped, u) = Count(added, u))
    /\ [][(policy = "random" /\ PopReturned) =>
            /\ Contains(queue, last'.ret)
            /\ Len(queue') = Len(queue) - 1
            /\ \A u \in URLS :
                  Count(queue', u) = Count(queue, u) - (IF u = last'.ret THEN 1 ELSE 0)]_vars

C12_Witness ==
    /\ policy = "random"
    /\ NoUrlAddedTwice
    /\ Len(added) = 2
    /\ queue = <<>>
    /\ popped = added
    /\ last.op = "pop"

----------------------------------------------------------------------------
(* Claims about the quality-heap frontier (SpecFrontier) *)

\* C13: a pop of the quality-heap frontier removes one heap entry, of the URL
\* it returns, whose priority is maximal among the entries enqueued: no URL
\* is returned while an entry of strictly higher priority is enqueued.
C13_HeapPopsMaxPriority ==
    [][(policy = "quality-heap" /\ PopReturned) =>
          \E i \in 1..Len(queue) :
             /\ queue[i][2] = last'.ret
             /\ queue' = RemoveAt(queue, i)
             /\ \A j \in 1..Len(queue) :
                   _external_priority(queue[j][1]) <= _external_priority(queue[i][1])]_vars

C13_Witness ==
    /\ policy = "quality-heap"
    /\ Len(added) = 2
    /\ added[1] < added[2]
    /\ popped = <<added[2]>>
    /\ Len(queue) = 1
    /\ last.op = "pop"

----------------------------------------------------------------------------
(* Claims about the frontier managers with remove and get (SpecRemove) *)

\* the heap holds no entry that get() would return: none at all in PQueueHeap,
\* only stale ones (above the priority recorded for their item) otherwise
NoLiveEntry ==
    IF policy = "quality-updating"
    THEN \A i \in 1..Len(queue) :
            /\ queue[i][2] \in DOMAIN deleted
            /\ _external_priority(queue[i][1])
                  > _external_priority(deleted[queue[i][2]].priority)
    ELSE queue = <<>>

----------------------------------------------------------------------------
(* Further claims about the quality-updating queue (SpecPQ) *)

\* the (item, priority) pairs returned by get() called until it fails
RECURSIVE Drain(_)
Drain(s) ==
    LET g == PQ_get(s)
    IN IF g.exc # None THEN <<>> ELSE <<g.ret>> \o Drain(g.st)

\* C15: in every state reached by put, update, get and compaction, running
\* _cleanup_deleted succeeds, leaves enqueued() as it is, sets num_deleted to
\* 0, and the get() calls that follow return the same (URL, priority) pairs in
\* the same order as they would have without it.
C15_CleanupInvisible ==
    LET c == _cleanup_deleted(PQState)
    IN /\ c.exc = None
       /\ PQ_enqueued(c.st) = PQ_enqueued(PQState)
       /\ c.st.num_deleted = 0
       /\ Drain(c.st) = Drain(PQState)

C15_Witness ==
    /\ last.op = "_cleanup_deleted"
    /\ last.exc = None
    /\ last.sup = 1
    /\ num_deleted = 0
    /\ num_enqueued = 2
    /\ Len(queue) = 2

----------------------------------------------------------------------------
(* Claims about the quality-updating frontier with remove (SpecRemove) *)

\* C16: after every operation of the quality-updating queue the number of
\* stale heap entries is at most the threshold: an operation that takes
\* num_deleted above MAX_DELETED_THRESHOLD compacts before it returns.
C16_NumDeletedWithinThreshold ==
    policy = "quality-updating" => num_deleted <= MAX_DELETED_THRESHOLD

\* C17: in the quality-updating queue an update of a URL that is not tracked
\* (never added, or already returned by a pop) returns False and changes
\* nothing: heap, table, num_enqueued and num_deleted stay as they were.
C17_UpdateUntrackedIsNoop ==
    [][(policy = "quality-updating" /\ last'.op = "update"
          /\ last'.item \notin DOMAIN deleted) =>
             /\ last'.exc = None
             /\ last'.ret = FALSE
             /\ UNCHANGED frontierVars]_vars

C17_Witness ==
    /\ policy = "quality-updating"
    /\ last.op = "update"
    /\ last.exc = None
    /\ last.ret = FALSE
    /\ Contains(popped, last.item)
    /\ last.item \notin DOMAIN deleted
    /\ num_enqueued = 1

----------------------------------------------------------------------------
(* Claims about update and remove of the quality-updating queue *)

\* C18: an update of a tracked URL with a priority that is not higher than
\* the priority recorded for it returns True and leaves the heap, the table,
\* num_enqueued and num_deleted as they were.
C18_UpdateNotHigherIsNoop ==
    [][(last'.op = "update" /\ last'.item \in DOMAIN deleted
          /\ last'.priority <= RecordedPriority(deleted, last'.item)) =>
             /\ last'.exc = None
             /\ last'.ret = TRUE
             /\ UNCHANGED frontierVars]_vars

\* the table marks u as removed: recorded priority float('-inf')
RemovedIn(table, u) ==
    u \in DOMAIN table /\ table[u].priority = _internal_priority(NEG_INF)

Removed(u) == RemovedIn(deleted, u)

\* u is tracked and has not been removed
CurrentlyEnqueued(u) == u \in DOMAIN deleted /\ ~Removed(u)

\* C19: remove(u) of a URL enqueued in the quality-updating frontier succeeds
\* and decreases enqueued() by exactly one, leaving the heap entries of u in
\* place; from then on u is marked removed for as long as it is tracked, no
\* pop or get returns a URL marked removed, and no heap entry belongs to an
\* untracked URL, so that every entry u had is discarded as stale.
C19_RemoveEnqueued ==
    /\ [](policy = "quality-updating" =>
            \A i \in 1..Len(queue) : queue[i][2] \in DOMAIN deleted)
    /\ [][policy = "quality-updating" =>
            /\ (last'.op = "remove" /\ CurrentlyEnqueued(last'.item)) =>
                  /\ last'.exc = None
                  /\ Enqueued' = Enqueued - 1
                  /\ queue' = queue
                  /\ RemovedIn(deleted', last'.item)
            /\ \A u \in URLS :
                  Removed(u) =>
                     /\ Removed(u)' \/ u \notin DOMAIN deleted'
                     /\ ~(last'.op \in {"pop", "get"} /\ last'.exc = None
                            /\ last'.ret = u)]_vars

\* C20: after remove(u) in the quality-updating frontier u is no longer
\* tracked by the table of the queue: a successful remove leaves u outside the
\* table, and for a removed u a later update(u, p) returns False and a later
\* add of u is accepted and counted like the add of a URL never seen.
C20_RemovedIsAbsent ==
    [][policy = "quality-updating" =>
         /\ (last'.op = "remove" /\ last'.exc = None) =>
               last'.item \notin DOMAIN deleted'
         /\ \A u \in URLS :
               /\ (last'.op = "update" /\ last'.item = u /\ Removed(u)) =>
                     last'.ret = FALSE
               /\ (last'.op \in {"add", "add_with_max_priority"}
                     /\ last'.item = u /\ Removed(u)) =>
                        /\ last'.exc = None
                        /\ Enqueued' = Enqueued + 1]_vars

----------------------------------------------------------------------------
(* Claims about put, the seeds, the seen set and the parser *)

\* C21: in the quality-updating queue put(u, p) of a URL u tracked by the table
\* raises the assertion error and leaves the heap, the table, num_enqueued and
\* num_deleted unchanged; a get that returns u removes u from the table, and
\* put of an untracked URL is accepted and tracks it.
C21_PutTrackedRejected ==
    [][/\ (last'.op = "put" /\ last'.item \in DOMAIN deleted) =>
             /\ last'.exc = "AssertionError"
             /\ UNCHANGED frontierVars
       /\ (last'.op = "get" /\ last'.exc = None) =>
             last'.ret[1] \notin DOMAIN deleted'
       /\ (last'.op = "put" /\ last'.item \notin DOMAIN deleted) =>
             /\ last'.exc = None
             /\ last'.item \in DOMAIN deleted'
             /\ num_enqueued' = num_enqueued + 1]_vars

\* a put of a tracked URL with a superseded entry still in the heap was rejected
C21_Witness ==
    /\ last.op = "put"
    /\ last.exc = "AssertionError"
    /\ num_deleted > 0
    /\ Len(queue) > 1

\* C22: for the quality-heap policy update(page, parent) is a no-op: whatever
\* the enqueued page and its qscore, the heap (contents, priorities and hence
\* the order of the later pops) is left as it was.
C22_HeapUpdateNoop ==
    [][(policy = "quality-heap" /\ last'.op = "update") =>
          UNCHANGED frontierVars]_vars

\* the seeds populate_frontier has enqueued: the URLs added before the loop
SeedUrls ==
    LET n == seeds_read - notfound_seedurls
    IN {added[i] : i \in 1..(IF n < Len(added) THEN n ELSE Len(added))}

\* the priorities at which u is waiting in the quality frontier
LivePriorities(u) ==
    IF policy = "quality-updating"
    THEN IF u \in DOMAIN deleted THEN {RecordedPriority(deleted, u)} ELSE {}
    ELSE {_external_priority(queue[i][1]) : i \in {j \in 1..Len(queue) : queue[j][2] = u}}

\* C23: in the quality policies a seed waits in the frontier at MAX_PRIORITY
\* for as long as it is enqueued, and a page that is not a seed is popped for
\* download, while every enqueued page that is not a seed has a priority below
\* MAX_PRIORITY, only when no seed is enqueued any more.
C23_SeedsFirst ==
    /\ [](policy \in QualityPolicies =>
            \A s \in SeedUrls : LivePriorities(s) \subseteq {MAX_PRIORITY})
    /\ [][(/\ policy \in QualityPolicies
           /\ Len(popped') = Len(popped) + 1
           /\ popped'[Len(popped')] \notin SeedUrls
           /\ \A u \in PAGES \ SeedUrls :
                 \A p \in LivePriorities(u) : p < MAX_PRIORITY) =>
              \A s \in SeedUrls : LivePriorities(s) = {}]_vars

\* seen_count() of the tester in use
SeenCount == T_seen_count(policy, seen_urls)

\* C24: for both testers seen_count() is the number of distinct docids marked,
\* and a successful mark_seen(x) leaves is_seen(x) true and raises seen_count()
\* by one if x was not seen and by nothing if it was.
C24_MarkSeenIdempotent ==
    /\ [](SeenCount = Cardinality({added[i] : i \in 1..Len(added)}))
    /\ [][(last'.op = "mark_seen" /\ last'.exc = None) =>
            /\ T_is_seen(policy, seen_urls', capacity, last'.item).ret = TRUE
            /\ SeenCount' = SeenCount +
                 (IF T_is_seen(policy, seen_urls, capacity, last'.item).ret
                  THEN 0 ELSE 1)]_vars

\* the bitmap tester has just marked for the second time the only docid marked
C24_Witness ==
    /\ policy = "bitarray"
    /\ last.op = "mark_seen"
    /\ last.exc = None
    /\ Len(added) = 2
    /\ added[1] = added[2]
    /\ SeenCount = 1

\* C25: the bitmap tester of capacity C raises IndexError from mark_seen(d) and
\* is_seen(d) exactly when d < 0 or d >= C, and a failing call leaves the bits,
\* and so seen_count(), unchanged.
C25_BitmapRange ==
    [][(policy = "bitarray" /\ last'.op \in {"mark_seen", "is_seen"}) =>
          /\ (last'.exc = "IndexError") <=>
                (last'.item < 0 \/ last'.item >= capacity)
          /\ last'.exc \in {None, "IndexError"}
          /\ last'.exc = "IndexError" =>
                (seen_urls' = seen_urls /\ SeenCount' = SeenCount)]_vars

\* mark_seen(C) has just failed on a tester whose docid C-1 is marked
C25_Witness ==
    /\ policy = "bitarray"
    /\ last.op = "mark_seen"
    /\ last.item = capacity
    /\ last.exc = "IndexError"
    /\ seen_urls[capacity - 1] = 1

\* where x first occurs in s
FirstIndex(s, x) ==
    CHOOSE i \in 1..Len(s) : s[i] = x /\ \A j \in 1..(i - 1) : s[j] # x

----------------------------------------------------------------------------
(* Claims about the termination of crawl() and its download log *)

\* what crawl() still has to do at most: every URL enqueued, every page not
\* yet seen and every seed not yet read costs one pass of the loop (a pop, at
\* most MaxLinks outlinks, the end of the page)
Variant ==
    (Enqueued + (NumPages - Cardinality(seen_urls)) + (MaxSeeds - seeds_read))
        * (MaxLinks + 2)
    + Len(todo) + (MaxSeeds - seeds_read)
    + (CASE pc = "populate" -> 2 [] pc = "crawl" -> 1 [] pc = "links" -> 2
         [] OTHER -> 0)

\* the last np.save made is the final flush
FinalFlushDone == writes # <<>> /\ writes[Len(writes)].last

\* C27: crawl() terminates for every corpus, seed list, link graph and policy:
\* every step lowers a non-negative variant and a step is possible until
\* crawl() has ended; crawl() ends by leaving the loop with the frontier empty
\* or max_pages reached and then making the final flush, and is aborted by an
\* exception only when a shard of the corpus cannot be read.
C27_CrawlTerminates ==
    /\ [](Variant >= 0)
    /\ [][Variant' < Variant]_vars
    /\ [](pc \notin {"done", "crashed"} => ENABLED Next)
    /\ [](pc = "done" => (Enqueued <= 0 \/ LimitReached) /\ FinalFlushDone)
    /\ [][(pc' = "crashed" /\ pc # "crashed") =>
             (pc = "crawl" /\ popped' # popped)]_vars

\* the contents of the files of ids, concatenated by increasing checkpoint id
RECURSIVE ConcatFiles(_)
ConcatFiles(ids) ==
    IF ids = {} THEN <<>>
    ELSE LET k == CHOOSE k \in ids : \A j \in ids : k <= j
         IN FileContent(k) \o ConcatFiles(ids \ {k})

\* C28: when crawl() has finished no np.save has overwritten the file of an
\* earlier one, and the files written, concatenated by increasing checkpoint
\* id, hold the docnos of the downloaded pages in download order, so that
\* every download record is in exactly one file.
C28_NoRecordLostOnWrite ==
    pc = "done" =>
       /\ Cardinality(FileIds) = Len(writes)
       /\ ConcatFiles(FileIds) = DownloadSequence

\* crawl() has finished after a regular checkpoint of three records and a
\* final flush of one
C28_Witness ==
    /\ pc = "done"
    /\ Len(writes) = 2
    /\ Len(writes[1].data) = 3
    /\ Len(writes[2].data) = 1
    /\ ConcatFiles(FileIds) = DownloadSequence

\* C29: an outlink whose URL is not in the corpus raises wrong_linked_docid by
\* one, leaves the SeenSet and the frontier unchanged and is followed by the
\* next link; a seed whose URL is not in the corpus raises notfound_seedurls by
\* one, is neither enqueued nor marked seen and is followed by the next seed.
C29_NotFoundIsLocal ==
    /\ [][(pc = "links" /\ todo # <<>> /\ Head(todo) \notin PAGES) =>
            /\ wrong_linked_docid' = wrong_linked_docid + 1
            /\ UNCHANGED <<frontierVars, seen_urls, added>>
            /\ pc' = "links"
            /\ todo' = Tail(todo)]_vars
    /\ [][(pc = "populate" /\ seeds_read' = seeds_read + 1
             /\ last'.item \notin PAGES) =>
            /\ notfound_seedurls' = notfound_seedurls + 1
            /\ UNCHANGED <<frontierVars, seen_urls, added>>
            /\ pc' = "populate"]_vars

\* a crawl that skipped a seed and an outlink has gone on to download two pages
C29_Witness ==
    /\ pc = "done"
    /\ notfound_seedurls = 1
    /\ wrong_linked_docid = 1
    /\ Len(popped) = 2
    /\ Cardinality(seen_urls) = 2

----------------------------------------------------------------------------
(* Claims about the shard reader *)

\* the records of the offset file and the offset each one holds
NumRecords == (Len(offset_file) + 1) \div offset_size

RecordValue(k) ==
    DigitsValue(SubSeq(offset_file, k * offset_size + 1, k * offset_size + offset_dim))

\* C30: on an offset file of 11-byte records read_offsets(file, i) returns
\* (offset_i, offset_{i+1}) when record i+1 exists, and (offset_i, None) when
\* record i is the last one, whether or not it ends with a newline.
C30_ReadOffsets ==
    last.op = "read_offsets" =>
       /\ doc_seq + 1 < NumRecords =>
             /\ last.exc = None
             /\ last.ret = [start_offset |-> RecordValue(doc_seq),
                            end_offset |-> <<RecordValue(doc_seq + 1)>>]
       /\ doc_seq + 1 = NumRecords =>
             /\ last.exc = None
             /\ last.ret = [start_offset |-> RecordValue(doc_seq),
                            end_offset |-> <<>>]

\* C31: a missing shard file or a missing offset file is a non-fatal NotFound:
\* __parse_outlinks returns None without raising, as it does for a record
\* whose JSON is malformed.
C31_MissingShardIsNotFound ==
    (last.op = "__parse_outlinks"
        /\ shard_files \in {"no offset file", "no shard file", "malformed"})
    => (last.exc = None /\ last.ret = "None")

----------------------------------------------------------------------------
(* Claims about the order of a bfs / dfs crawl (SpecTraversal) *)

\* the number of links from a seed to u along the links that enqueued the URLs
RECURSIVE DepthIn(_, _)
DepthIn(f, u) == IF f[u] <= 0 THEN 0 ELSE 1 + DepthIn(f, f[u])

\* seeds [A, B], C enqueued by A, D enqueued by B, four pages downloaded
TwoLevelCrawl ==
    /\ pc = "done"
    /\ max_pages = 4
    /\ Len(added) = 4
    /\ SubSeq(added, 1, 2) = <<1, 2>>
    /\ fathers = [u \in PAGES \cup {UnknownUrl} |->
                    IF u = 3 THEN 1 ELSE IF u = 4 THEN 2 ELSE 0]
    /\ Len(popped) = 4

\* C32: with the bfs policy the pages are downloaded in the order they were
\* enqueued (seeds in seed-list order, then the new outlinks of each page in
\* their cleaned order), which is non-decreasing link distance from the seeds:
\* no link of a downloaded page reaches a URL in fewer steps than the depth
\* it was enqueued at.  Seeds [A, B], A->[C, B], B->[D], max_pages = 4 give
\* A, B, C, D with bfs and B, D, A, C with dfs.
C32_LevelOrder ==
    /\ [](policy = "bfs" =>
            /\ IsPrefix(popped, added)
            /\ \A i, j \in 1..Len(popped) :
                  i < j => DepthIn(fathers, popped[i]) <= DepthIn(fathers, popped[j]))
    /\ [][policy = "bfs" =>
            /\ added' = added
               \/ added' = Append(added, IF pc = "populate" THEN last'.item
                                         ELSE Head(todo))
            /\ (pc = "links" /\ todo # <<>> /\ InCorpus(Head(todo)))
               => DepthIn(fathers', Head(todo)) <= DepthIn(fathers, page) + 1
       ]_vars
    /\ [](TwoLevelCrawl =>
            popped = IF policy = "bfs" THEN <<1, 2, 3, 4>> ELSE <<2, 4, 1, 3>>)

C32_Witness ==
    /\ policy = "bfs"
    /\ TwoLevelCrawl
    /\ popped = <<1, 2, 3, 4>>

----------------------------------------------------------------------------
(* Claims about the counters and the table of the quality-updating queue   *)
(* (SpecPQ)                                                                *)

\* C33: in every state reachable by put, update, get and _cleanup_deleted,
\* enqueued() = queue.qsize() - num_deleted: the live URLs are the heap
\* entries that are not stale.
C33_EnqueuedIsHeapMinusStale ==
    PQ_enqueued(PQState) = Len(queue) - num_deleted

C33_Witness ==
    /\ last.op = "get"
    /\ last.exc = None
    /\ num_deleted = 1
    /\ num_enqueued = 1
    /\ Len(queue) = 2

\* the number of heap entries of u
EntryCount(q, u) == Cardinality({i \in 1..Len(q) : q[i][2] = u})

\* C34: each URL with a heap entry is tracked and its table count is the
\* number of its heap entries minus one; an update changes the number of heap
\* entries of its URL and the URL's count by the same amount, by exactly one
\* when it is accepted without compaction; get deletes the table entry of a
\* URL exactly when it returns that URL.
C34_HeapTableConsistent ==
    /\ [](\A u \in URLS :
            EntryCount(queue, u) >= 1 =>
               /\ u \in DOMAIN deleted
               /\ deleted[u].count = EntryCount(queue, u) - 1)
    /\ [][\A u \in URLS :
            (last'.op = "update" /\ last'.item = u /\ u \in DOMAIN deleted) =>
               /\ u \in DOMAIN deleted'
               /\ EntryCount(queue', u) - EntryCount(queue, u)
                     = deleted'[u].count - deleted[u].count
               /\ num_deleted' = num_deleted + 1 =>
                     /\ EntryCount(queue', u) = EntryCount(queue, u) + 1
                     /\ deleted'[u].count = deleted[u].count + 1
               /\ \A v \in URLS \ {u} : EntryCount(queue', v) <= EntryCount(queue, v)
       ]_vars
    /\ [][\A u \in DOMAIN deleted :
            last'.op = "get" =>
               ((u \notin DOMAIN deleted') <=> (last'.exc = None /\ last'.ret[1] = u))
       ]_vars

C34_Witness ==
    /\ last.op = "get"
    /\ last.exc = None
    /\ \E u \in DOMAIN deleted :
          /\ u # last.ret[1]
          /\ deleted[u].count = 1
          /\ EntryCount(queue, u) = 2

\* C35: get() never returns a stale entry: the URL it returns was tracked
\* when get was called, the priority it returns is the one the table recorded
\* for that URL, and no tracked URL had a higher recorded priority.
C35_GetReturnsLiveMax ==
    [][(last'.op = "get" /\ last'.exc = None) =>
          LET u == last'.ret[1]
              p == last'.ret[2]
          IN /\ u \in DOMAIN deleted
             /\ p = RecordedPriority(deleted, u)
             /\ \A v \in DOMAIN deleted : RecordedPriority(deleted, v) <= p
      ]_vars

\* a get that skipped the stale entry of the URL it returned (put with 2,
\* updated to 1) while another URL stays tracked
C35_Witness ==
    /\ last.op = "get"
    /\ last.exc = None
    /\ last.ret[2] = 1
    /\ last.sup = 2
    /\ DOMAIN deleted # {}
    /\ num_deleted = 0

----------------------------------------------------------------------------
(* Claims about the pages a crawl downloads (Spec) *)

\* C36: for every seed list, also one that repeats a URL, for every link
\* graph and policy, no docno appears more than once in the download log.
C36_DownloadedAtMostOnce ==
    \A u \in PAGES : Count(DownloadLog, url2docno(u)) <= 1

\* the docnos in the download log
DownloadedDocnos == {DownloadLog[k] : k \in 1..Len(DownloadLog)}

\* C37: with no page limit, at the end of crawl() the docnos in the download
\* log are those of the pages reachable from the seeds found in the corpus
\* along cleaned outlinks that are in the corpus: every such seed and every
\* such outlink of a downloaded page is enqueued, every URL enqueued is
\* downloaded, and every page downloaded is a seed or was linked by a
\* downloaded page.
C37_CrawlComplete ==
    /\ [][(max_pages = 0 /\ last'.op = "populate_frontier" /\ pc' # "crashed"
              /\ InCorpus(last'.item))
            => Contains(added', last'.item)]_vars
    /\ [][(max_pages = 0 /\ pc = "links" /\ todo # <<>> /\ pc' # "crashed"
              /\ InCorpus(Head(todo)))
            => Contains(added', Head(todo))]_vars
    /\ []((pc = "done" /\ max_pages = 0) =>
            /\ \A k \in 1..Len(added) : url2docno(added[k]) \in DownloadedDocnos
            /\ \A u \in PAGES :
                  url2docno(u) \in DownloadedDocnos =>
                     /\ fathers[u] # NotAdded
                     /\ fathers[u] # 0 => url2docno(fathers[u]) \in DownloadedDocnos)

C37_Witness ==
    /\ pc = "done"
    /\ max_pages = 0
    /\ fathers[1] = 0
    /\ fathers[2] = 1
    /\ fathers[3] = 2
    /\ DownloadedDocnos = {url2docno(u) : u \in PAGES}

\* C38: inside the crawl loop pop never fails: whenever enqueued() > 0 the
\* frontier holds a live entry (for the quality-updating queue a heap entry
\* that is not stale), and the pop made at the head of the loop returns a URL.
C38_PopNeverFails ==
    /\ [](Enqueued > 0 => ~NoLiveEntry)
    /\ [][(pc = "crawl" /\ Enqueued > 0 /\ ~LimitReached)
            => Len(popped') = Len(popped) + 1]_vars

C38_Witness ==
    /\ policy = "quality-updating"
    /\ pc = "links"
    /\ Len(popped) = 2
    /\ Enqueued > 0
    /\ num_deleted > 0
    /\ Len(queue) = Enqueued + num_deleted

----------------------------------------------------------------------------
(* Claims about the checkpoint files (Spec) *)

\* C39: within one run, for every save_every_n_pages >= 1 shared by the crawl
\* loop and the Fetcher, the checkpoint ids written by the regular checkpoints
\* and by the final flush are strictly increasing: no file is written twice.
C39_CheckpointIdsIncrease ==
    \A i, j \in 1..Len(writes) : i < j => writes[i].id < writes[j].id

\* two regular checkpoints and the final flush
C39_Witness ==
    /\ pc = "done"
    /\ Len(writes) = 3
    /\ ~writes[1].last
    /\ ~writes[2].last
    /\ writes[3].last
    /\ writes[1].id < writes[2].id
    /\ writes[2].id < writes[3].id

----------------------------------------------------------------------------
(* Claims about the compaction of the quality-updating queue (SpecCompact) *)

\* the URLs that are tracked and were not removed
LiveUrls(table) == {u \in DOMAIN table : ~RemovedIn(table, u)}

\* C40: from every reachable state of the queue, also after remove(),
\* _cleanup_deleted returns without raising, and afterwards the heap and the
\* table hold exactly the live URLs, one heap entry and count 0 each.
C40_CompactionCompletes ==
    [][last'.op = "_cleanup_deleted" =>
          /\ last'.exc = None
          /\ DOMAIN deleted' = LiveUrls(deleted)
          /\ \A u \in DOMAIN deleted' : deleted'[u].count = 0
          /\ {queue'[i][2] : i \in 1..Len(queue')} = LiveUrls(deleted)
          /\ Len(queue') = Cardinality(LiveUrls(deleted))
      ]_vars

====
